---- MODULE Spec2Model ----
(***************************************************************************)
(* Incident lifecycle and verification engine of the AsTeck traffic bot.   *)
(*                                                                         *)
(* The store (tables incidents, confirmations, users and the two SQL       *)
(* functions), the store API of infra/supabase.ts, the Telegram handlers   *)
(* that drive a report from type selection to persistence, the vote        *)
(* actions, the /api/report route and the expiry sweep.                    *)
(*                                                                         *)
(* Time is in minutes.  Coordinates are in units of 1e-4 degree.           *)
(* A handler that awaits is split at its awaits: every action below is the *)
(* code between two awaits, and the store executes one statement per step. *)
(***************************************************************************)
EXTENDS Integers, Sequences, FiniteSets, Bags, TLC

\* ------------------------------------------------------------------ bounds

MaxIncidents == 2        \* rows the incidents table may hold
MaxConfirmations == 3    \* rows the confirmations table may hold
MaxProcs == 2            \* handlers / store calls in flight at once
MaxReports == 1          \* a reporter with this many counted reports files no more
MaxCount == 3            \* cap of incidents.confirmations

\* ------------------------------------------------------- program constants

BotTTL == 240            \* 4 * 60 minutes
ApiTTL == 60             \* 60 minutes
VerifyThreshold == 2
InitialTrust == 50
MinTrust == 0
MaxTrust == 100
DefaultSeverity == 3
CriticalSeverity == 4
MergeRadiusM == 50
MergeWindowMin == 10

\* ------------------------------------------------------------------ inputs

Reporters == {"A", "B"}
Types == {"flooding", "accident"}
IncidentTypes ==
  {"accident", "police_control", "flooding", "traffic_jam", "road_damage",
   "road_works", "hazard", "protest", "roadblock", "sos", "other"}
Bastos == [latitude |-> 38480, longitude |-> 115021]
BastosNear == [latitude |-> 38481, longitude |-> 115022]
Locations == {Bastos, BastosNear}
Instants == {0, 3, 250}
ApiSeverities == {0, 4}
ConfirmationDeltas == {1, -1}
TrustDeltas == {-70, -20, 70}
Votes == {"confirm", "deny"}
Words == {"flood", "accident", "traffic", "cassé", "help", "aide", "hello"}
DialogTexts == {<<"flood">>, <<"help">>, <<"hello">>, <<"730">>}
Procs == 1 .. MaxProcs
IncidentIds == 1 .. MaxIncidents

VARIABLES
  now,             \* the clock (Date.now(), NOW()), in minutes
  incidents,       \* table incidents: a sequence of rows, the id is the index
  confirmations,   \* table confirmations: a bag of rows
  users,           \* table users: a sequence of rows
  pendingReports,  \* the in-memory Map userId -> PendingReport
  calls,           \* the handlers and store calls suspended at an await
  channel,         \* the messages sent to the broadcast channel
  lastReply,       \* the last answer the bot gave to a location or a vote
  lastVote,        \* the last vote: who, on which incident, and addConfirmation's result
  pendingRoutes,   \* the in-memory Map userId -> route request
  pendingFuel,     \* the in-memory Map userId -> fuel request
  geminiModel,     \* whether GEMINI_API_KEY gave the client a model
  lastAnalysis,    \* the last analyzeText / analyzeVoice / analyzePhoto call and its result
  timers,          \* the setInterval timers of the process: a sequence, the id is the index
  morningBriefInterval,  \* AsTeckScheduler.morningBriefInterval (0 is null)
  expiryInterval,  \* AsTeckScheduler.expiryInterval (0 is null)
  lastSchedulerCall,     \* the last call made on the scheduler: none, start, stop
  defaultModel,    \* ModelFactory.defaultModel
  lastModel        \* the last ModelFactory.getModel call and what it returned

\* The state of the route and fuel flows and of the AI client.
flowVars == <<pendingRoutes, pendingFuel, geminiModel, lastAnalysis>>

\* The state of the scheduler and of the model registry.
hostVars ==
  <<timers, morningBriefInterval, expiryInterval, lastSchedulerCall,
    defaultModel, lastModel>>

vars ==
  <<now, incidents, confirmations, users, pendingReports, calls, channel,
    lastReply, lastVote, pendingRoutes, pendingFuel, geminiModel, lastAnalysis,
    timers, morningBriefInterval, expiryInterval, lastSchedulerCall,
    defaultModel, lastModel>>

\* ------------------------------------------------------------------ store

NoPending == [step |-> "none"]
Idle == [op |-> "idle"]
NoReply == "none"
NoVote == [userId |-> "", incidentId |-> 0, vote |-> "", success |-> FALSE]
NoRoute == [step |-> "none"]
NoFuel == [step |-> "none"]
NoAnalysis == [kind |-> "none"]

\* null, as getOrCreateUser, analyzeVoice and analyzePhoto return it.
Null == [type |-> "null"]

UserRows(telegramId) ==
  {k \in 1 .. Len(users) : users[k].telegram_id = telegramId}

HasUser(telegramId) == UserRows(telegramId) # {}

NewUser(telegramId) ==
  [telegram_id |-> telegramId, trust_score |-> InitialTrust, reports_count |-> 0]

\* CHECK and REFERENCES constraints of table incidents.
IncidentAccepted(row) ==
  /\ row.type \in IncidentTypes
  /\ row.severity >= 1 /\ row.severity <= 5
  /\ row.status \in {"pending", "verified", "expired", "false"}
  /\ HasUser(row.reporter_id)

ConfirmationRow(incidentId, telegramId, vote) ==
  [incident_id |-> incidentId, user_telegram_id |-> telegramId, vote |-> vote]

ConfirmationRowsOf(incidentId, telegramId) ==
  {r \in BagToSet(confirmations) :
     r.incident_id = incidentId /\ r.user_telegram_id = telegramId}

\* The uniqueness constraint is dropped.
UniqueViolationDropped(incidentId, telegramId) == FALSE

\* UNIQUE(incident_id, user_telegram_id) of table confirmations.
UniqueViolation(incidentId, telegramId) ==
  ConfirmationRowsOf(incidentId, telegramId) # {}

\* REFERENCES incidents(id) and REFERENCES users(telegram_id).
ForeignKeyViolation(incidentId, telegramId) ==
  \/ incidentId \notin 1 .. Len(incidents)
  \/ ~HasUser(telegramId)

\* The comparison with NOW() is reversed.
ExpireOldIncidentsReversed(rows, t) ==
  [k \in 1 .. Len(rows) |->
     IF rows[k].status \in {"pending", "verified"} /\ rows[k].expires_at > t
       THEN [rows[k] EXCEPT !.status = "expired"]
       ELSE rows[k]]

\* UPDATE incidents SET status = 'expired'
\*  WHERE status IN ('pending', 'verified') AND expires_at < NOW()
ExpireOldIncidents(rows, t) ==
  [k \in 1 .. Len(rows) |->
     IF rows[k].status \in {"pending", "verified"} /\ rows[k].expires_at < t
       THEN [rows[k] EXCEPT !.status = "expired"]
       ELSE rows[k]]

\* GET DIAGNOSTICS expired_count = ROW_COUNT
RowCount(before, after) ==
  Cardinality({k \in 1 .. Len(before) : after[k] # before[k]})

\* The threshold is off by one.
ConfirmationStatusOffByOne(newConfirmations) ==
  IF newConfirmations >= VerifyThreshold - 1 THEN "verified" ELSE "pending"

\* status: newConfirmations >= 2 ? 'verified' : 'pending'
ConfirmationStatus(newConfirmations) ==
  IF newConfirmations >= VerifyThreshold THEN "verified" ELSE "pending"

Max(a, b) == IF a >= b THEN a ELSE b
Min(a, b) == IF a <= b THEN a ELSE b

\* The upper clamp is missing.
NewScoreUnclamped(trust_score, delta) == Max(MinTrust, trust_score + delta)

\* Math.max(0, Math.min(100, user.trust_score + delta))
NewScore(trust_score, delta) ==
  Max(MinTrust, Min(MaxTrust, trust_score + delta))

\* The sum is not clamped at zero.
NewConfirmationsUnclamped(currentConfirmations, delta) ==
  currentConfirmations + delta

\* Math.max(0, currentConfirmations + delta)
NewConfirmations(currentConfirmations, delta) ==
  Max(0, currentConfirmations + delta)

\* The lowest slot with no call in flight.
FreeProc(p) == calls[p] = Idle /\ \A q \in Procs : q < p => calls[q] # Idle

\* ------------------------------------------------------------------- state

NoModel == [name |-> "none", model |-> "none"]

\* No scheduler call was made yet; DEFAULT_AI_MODEL is not set.
InitHost ==
  /\ timers = <<>>
  /\ morningBriefInterval = 0
  /\ expiryInterval = 0
  /\ lastSchedulerCall = "none"
  /\ defaultModel = "gemini"
  /\ lastModel = NoModel

Init ==
  /\ now = 0
  /\ incidents = <<>>
  /\ confirmations = EmptyBag
  /\ users = <<>>
  /\ pendingReports = [u \in Reporters |-> NoPending]
  /\ calls = [p \in Procs |-> Idle]
  /\ channel = <<>>
  /\ lastReply = NoReply
  /\ lastVote = NoVote
  /\ pendingRoutes = [u \in Reporters |-> NoRoute]
  /\ pendingFuel = [u \in Reporters |-> NoFuel]
  /\ geminiModel = TRUE
  /\ lastAnalysis = NoAnalysis
  /\ InitHost

\* The clock moves on.
Advance ==
  /\ \E t \in Instants : t > now /\ now' = t
  /\ UNCHANGED <<incidents, confirmations, users, pendingReports, calls,
                 channel, lastReply, lastVote>>
  /\ UNCHANGED <<flowVars, hostVars>>

\* ------------------------------------------------------------ users, /start

\* getOrCreateUser up to its first await: the select.  With one row the user is
\* returned and the /start handler sends its welcome; with none (PGRST116) the
\* insert is issued.
GetOrCreateUserSelect(p, telegramId) ==
  IF Cardinality(UserRows(telegramId)) = 1
    THEN lastReply' = "welcome" /\ UNCHANGED calls
    ELSE /\ calls' = [calls EXCEPT ![p] =
                        [op |-> "getOrCreateUser", pc |-> "insert",
                         telegramId |-> telegramId]]
         /\ UNCHANGED lastReply

\* bot.command('start')
StartCommand(p, telegramId) ==
  /\ FreeProc(p)
  /\ GetOrCreateUserSelect(p, telegramId)
  /\ UNCHANGED <<now, incidents, confirmations, users, pendingReports, channel, lastVote>>
  /\ UNCHANGED <<flowVars, hostVars>>

\* Every entry of the map is removed.
DeleteAll(map, userId) == [u \in Reporters |-> NoPending]

\* pendingReports.delete(userId)
Delete(map, userId) == [map EXCEPT ![userId] = NoPending]

\* bot.hears(mainMenu): the reset, then /start.
MainMenu(p, telegramId) ==
  /\ FreeProc(p)
  /\ pendingReports' = Delete(pendingReports, telegramId)
  /\ pendingRoutes' = [pendingRoutes EXCEPT ![telegramId] = NoRoute]
  /\ GetOrCreateUserSelect(p, telegramId)
  /\ UNCHANGED <<now, incidents, confirmations, users, channel, lastVote>>
  /\ UNCHANGED <<pendingFuel, geminiModel, hostVars, lastAnalysis>>

\* The insert of getOrCreateUser and what the call then returns: the new row,
\* or null (createError) when a row of this telegram_id is there, the table
\* unchanged.
CreateUser(rows, telegramId) ==
  IF \E k \in 1 .. Len(rows) : rows[k].telegram_id = telegramId
    THEN [rows |-> rows, user |-> Null]
    ELSE [rows |-> Append(rows, NewUser(telegramId)),
          user |-> NewUser(telegramId)]

\* getOrCreateUser, the insert: telegram_id is UNIQUE, so a second insert of the
\* same id fails (createError) and null is returned.  /start sends its welcome
\* either way.
GetOrCreateUserInsert(p) ==
  /\ calls[p].op = "getOrCreateUser"
  /\ users' = CreateUser(users, calls[p].telegramId).rows
  /\ lastReply' = "welcome"
  /\ calls' = [calls EXCEPT ![p] = Idle]
  /\ UNCHANGED <<now, incidents, confirmations, pendingReports, channel, lastVote>>
  /\ UNCHANGED <<flowVars, hostVars>>

\* ----------------------------------------------------------------- intake

\* handleIncidentTypeSelection
SelectType(telegramId, type) ==
  /\ pendingReports' = [pendingReports EXCEPT ![telegramId] =
       [step |-> "awaiting_description", type |-> type, description |-> <<>>,
        severity |-> 0]]
  /\ UNCHANGED lastReply
  /\ UNCHANGED <<now, incidents, confirmations, users, calls, channel, lastVote>>
  /\ UNCHANGED <<flowVars, hostVars>>

\* The step is not advanced.
WithDescriptionKeepsStep(pending, text) ==
  [pending EXCEPT !.description = text]

\* pending.description = text; pending.step = 'awaiting_location'
WithDescription(pending, text) ==
  [pending EXCEPT !.description = text, !.step = "awaiting_location"]

\* bot.on('text'), the pending-flow branch, for a text without SOS keyword of
\* a reporter without fuel request.
OnTextDescription(telegramId, text) ==
  /\ pendingReports[telegramId].step = "awaiting_description"
  /\ pendingReports' = [pendingReports EXCEPT ![telegramId] =
       WithDescription(@, text)]
  /\ UNCHANGED lastReply
  /\ UNCHANGED <<now, incidents, confirmations, users, calls, channel, lastVote>>
  /\ UNCHANGED <<flowVars, hostVars>>

\* The handleLocation calls whose insert or reward is still to come, and those
\* of one reporter.
Finalizing == {q \in Procs : calls[q].op = "handleLocation"}
FinalizingOf(telegramId) == {q \in Finalizing : calls[q].userId = telegramId}

ReportsCount(telegramId) ==
  IF HasUser(telegramId)
    THEN users[CHOOSE k \in UserRows(telegramId) : TRUE].reports_count
    ELSE 0

\* const incidentData = { ... } of handleLocation
IncidentData(telegramId, pending, location) ==
  [type |-> pending.type,
   location |-> location,
   severity |-> IF pending.severity = 0 THEN DefaultSeverity ELSE pending.severity,
   status |-> "pending",
   reporter_id |-> telegramId,
   confirmations |-> 0,
   expires_at |-> now + BotTTL,
   created_at |-> now]

\* createIncident, the row it inserts: the location goes to the columns
\* latitude and longitude.
InsertRow(incident) ==
  [type |-> incident.type,
   latitude |-> incident.location.latitude,
   longitude |-> incident.location.longitude,
   severity |-> incident.severity,
   status |-> incident.status,
   reporter_id |-> incident.reporter_id,
   confirmations |-> incident.confirmations,
   expires_at |-> incident.expires_at,
   created_at |-> incident.created_at]

\* Any pending report is finalized, whatever its step.
AwaitsLocationAnyStep(pending) == pending # NoPending

\* pending && pending.step === 'awaiting_location'
AwaitsLocation(pending) == pending.step = "awaiting_location"

\* handleLocation up to its first await.  Without a pending report awaiting its
\* location the message is a nearby query; otherwise the incident is built from
\* the pending report and createIncident is issued.
HandleLocation(p, telegramId, location) ==
  /\ FreeProc(p)
  /\ LET pending == pendingReports[telegramId] IN
       IF ~AwaitsLocation(pending)
         THEN /\ lastReply' = "nearby"
              /\ UNCHANGED calls
         ELSE /\ Len(incidents) + Cardinality(Finalizing) < MaxIncidents
              /\ ReportsCount(telegramId) < MaxReports
              /\ calls' = [calls EXCEPT ![p] =
                   [op |-> "handleLocation", pc |-> "createIncident",
                    userId |-> telegramId,
                    incidentData |-> IncidentData(telegramId, pending, location),
                    saved |-> 0]]
              /\ UNCHANGED lastReply
  /\ UNCHANGED <<now, incidents, confirmations, users, pendingReports, channel, lastVote>>
  /\ UNCHANGED <<flowVars, hostVars>>

\* createIncident: one insert, always of a new row.  The store may fail, and it
\* rejects a row that breaks a constraint; the caller then gets null.
HandleLocationCreateIncident(p) ==
  /\ calls[p].op = "handleLocation"
  /\ calls[p].pc = "createIncident"
  /\ \E storeOk \in BOOLEAN :
       IF storeOk /\ IncidentAccepted(calls[p].incidentData)
         THEN /\ incidents' = Append(incidents, InsertRow(calls[p].incidentData))
              /\ calls' = [calls EXCEPT ![p].pc = "incrementUserReports",
                                        ![p].saved = Len(incidents) + 1]
         ELSE /\ incidents' = incidents
              /\ calls' = [calls EXCEPT ![p].pc = "incrementUserReports"]
  /\ UNCHANGED <<now, confirmations, users, pendingReports, channel, lastReply, lastVote>>
  /\ UNCHANGED <<flowVars, hostVars>>

\* UPDATE users SET reports_count = reports_count + 1 WHERE telegram_id = ...
IncrementReports(rows, telegramId) ==
  [k \in 1 .. Len(rows) |->
     IF rows[k].telegram_id = telegramId
       THEN [rows[k] EXCEPT !.reports_count = @ + 1]
       ELSE rows[k]]

\* handleLocation from the reward to the next await: incrementUserReports,
\* the reply, and either the broadcast is issued or the pending report is
\* deleted.
HandleLocationReward(p) ==
  /\ calls[p].op = "handleLocation"
  /\ calls[p].pc = "incrementUserReports"
  /\ users' = IncrementReports(users, calls[p].userId)
  /\ lastReply' = "reportReceived"
  /\ IF calls[p].saved # 0
       THEN /\ calls' = [calls EXCEPT ![p].pc = "sendToChannel"]
            /\ UNCHANGED pendingReports
       ELSE /\ calls' = [calls EXCEPT ![p] = Idle]
            /\ pendingReports' = Delete(pendingReports, calls[p].userId)
  /\ UNCHANGED <<now, incidents, confirmations, channel, lastVote>>
  /\ UNCHANGED <<flowVars, hostVars>>

\* Only a severity above 4 is critical.
IsCriticalAbove(severity) == severity > CriticalSeverity

\* const isCritical = (saved.severity as number) >= 4
IsCritical(severity) == severity >= CriticalSeverity

\* sendToChannel and the cleanup.  sendMessage may reject: the exception leaves
\* handleLocation before pendingReports.delete.
HandleLocationSendToChannel(p) ==
  /\ calls[p].op = "handleLocation"
  /\ calls[p].pc = "sendToChannel"
  /\ \E sent \in BOOLEAN :
       IF sent
         THEN /\ channel' = Append(channel,
                   [incident |-> calls[p].saved,
                    critical |-> IsCritical(incidents[calls[p].saved].severity)])
              /\ pendingReports' = Delete(pendingReports, calls[p].userId)
         ELSE UNCHANGED <<channel, pendingReports>>
  /\ calls' = [calls EXCEPT ![p] = Idle]
  /\ UNCHANGED <<now, incidents, confirmations, users, lastReply, lastVote>>
  /\ UNCHANGED <<flowVars, hostVars>>

\* router.post('/report'): the incident of the native app, one insert.
ApiReport(userId, type, location, severity) ==
  /\ Len(incidents) + Cardinality(Finalizing) < MaxIncidents
  /\ LET incident ==
           [type |-> type,
            location |-> location,
            severity |-> IF severity = 0 THEN DefaultSeverity ELSE severity,
            status |-> "pending",
            reporter_id |-> userId,
            confirmations |-> 0,
            expires_at |-> now + ApiTTL,
            created_at |-> now]
     IN /\ IncidentAccepted(incident)
        /\ incidents' = Append(incidents, InsertRow(incident))
  /\ UNCHANGED <<now, confirmations, users, pendingReports, calls, channel,
                 lastReply, lastVote>>
  /\ UNCHANGED <<flowVars, hostVars>>

\* ------------------------------------------------------------------ votes

\* addConfirmation: one insert into confirmations.  Any error makes it return
\* false: the unique violation (23505), a foreign-key violation, a store that
\* is down.
AddConfirmation(storeOk, incidentId, telegramId) ==
  /\ storeOk
  /\ ~UniqueViolation(incidentId, telegramId)
  /\ ~ForeignKeyViolation(incidentId, telegramId)

\* The confirm and the reject action: addConfirmation and the answer.  Neither
\* calls anything else of the store, so table incidents is as it was.
VoteAction(telegramId, incidentId, vote, accepted, refused) ==
  /\ BagCardinality(confirmations) < MaxConfirmations
  /\ \E storeOk \in BOOLEAN :
       LET success == AddConfirmation(storeOk, incidentId, telegramId) IN
         /\ confirmations' =
              IF success
                THEN confirmations (+)
                       SetToBag({ConfirmationRow(incidentId, telegramId, vote)})
                ELSE confirmations
         /\ lastReply' = IF success THEN accepted ELSE refused
         /\ lastVote' = [userId |-> telegramId, incidentId |-> incidentId,
                         vote |-> vote, success |-> success]
  /\ UNCHANGED <<now, incidents, users, pendingReports, calls, channel>>
  /\ UNCHANGED <<flowVars, hostVars>>

\* bot.action(/^confirm_(.+)$/)
ConfirmAction(telegramId, incidentId) ==
  VoteAction(telegramId, incidentId, "confirm", "confirmed", "alreadyConfirmed")

\* bot.action(/^reject_(.+)$/)
RejectAction(telegramId, incidentId) ==
  VoteAction(telegramId, incidentId, "deny", "rejected", "alreadyRecorded")

\* ------------------------------------------------------------------ expiry

\* runExpiryCleanup: rpc('expire_old_incidents'), one UPDATE.
RunExpiryCleanup ==
  /\ incidents' = ExpireOldIncidents(incidents, now)
  /\ UNCHANGED <<now, confirmations, users, pendingReports, calls, channel,
                 lastReply, lastVote>>
  /\ UNCHANGED <<flowVars, hostVars>>

\* -------------------------------------------------------------- scheduler

MaxStarts == 2           \* start() calls the model follows
MaxBriefs == 2           \* morning briefs the channel may take

\* The brief as the channel gets it: it is the message of no incident.
Brief == [incident |-> 0, critical |-> FALSE]

\* checkMorningBrief: at 6 AM WAT the brief is generated and broadcast.
CheckMorningBrief ==
  /\ \E six \in BOOLEAN :
       IF six /\ Len(channel) < MaxBriefs
         THEN channel' = Append(channel, Brief)
         ELSE UNCHANGED channel
  /\ UNCHANGED <<now, incidents, confirmations, users, pendingReports, calls,
                 lastReply, lastVote>>
  /\ UNCHANGED flowVars

\* AsTeckScheduler.start: two setInterval calls, their handles stored over
\* whatever the fields held, and the initial checkMorningBrief.
SchedulerStart ==
  /\ Len(timers) + 2 <= 2 * MaxStarts
  /\ timers' = timers \o <<[task |-> "morningBrief", live |-> TRUE],
                           [task |-> "expiry", live |-> TRUE]>>
  /\ morningBriefInterval' = Len(timers) + 1
  /\ expiryInterval' = Len(timers) + 2
  /\ lastSchedulerCall' = "start"
  /\ CheckMorningBrief
  /\ UNCHANGED <<defaultModel, lastModel>>

\* AsTeckScheduler.stop: clearInterval of the two handles the fields hold; the
\* fields keep their values.
SchedulerStop ==
  /\ timers' =
       [k \in 1 .. Len(timers) |->
          IF k \in {morningBriefInterval, expiryInterval}
            THEN [timers[k] EXCEPT !.live = FALSE] ELSE timers[k]]
  /\ lastSchedulerCall' = "stop"
  /\ UNCHANGED <<morningBriefInterval, expiryInterval, defaultModel, lastModel>>
  /\ UNCHANGED <<now, incidents, confirmations, users, pendingReports, calls,
                 channel, lastReply, lastVote>>
  /\ UNCHANGED flowVars

\* A live expiry timer fires: runExpiryCleanup.
ExpiryTick(k) ==
  /\ timers[k].live
  /\ timers[k].task = "expiry"
  /\ RunExpiryCleanup

\* A live morning-brief timer fires: checkMorningBrief.
BriefTick(k) ==
  /\ timers[k].live
  /\ timers[k].task = "morningBrief"
  /\ CheckMorningBrief
  /\ UNCHANGED hostVars

\* ---------------------------------------------------------- model registry

\* ModelFactory.models after the static block.
Models == [gemini |-> "GeminiModel", opencode |-> "OpenCodeModel"]

\* Map.get of a key that is not set.
Undefined == "undefined"

\* ModelFactory.listModels
ListModels == DOMAIN Models

\* The names getModel is called with ("" is no name) and the values
\* DEFAULT_AI_MODEL may give defaultModel.
ModelNames == {"", "gemini", "opencode", "claude"}
DefaultNames == {"gemini", "opencode", "claude"}

\* models.get(name)
ModelsGet(name) == IF name \in DOMAIN Models THEN Models[name] ELSE Undefined

\* What models.get finds is returned, found or not.
GetModelNoFallback(default, name) ==
  ModelsGet(IF name = "" THEN default ELSE name)

\* ModelFactory.getModel
GetModel(default, name) ==
  LET modelName == IF name = "" THEN default ELSE name
      model == ModelsGet(modelName)
  IN IF model = Undefined THEN ModelsGet("gemini") ELSE model

\* getModel is called, with a name or without.
GetModelCall(name) ==
  /\ lastModel' = [name |-> name, model |-> GetModel(defaultModel, name)]
  /\ UNCHANGED <<timers, morningBriefInterval, expiryInterval,
                 lastSchedulerCall, defaultModel>>
  /\ UNCHANGED <<now, incidents, confirmations, users, pendingReports, calls,
                 channel, lastReply, lastVote>>
  /\ UNCHANGED flowVars

\* --------------------------------------------- store API without a caller

\* updateIncidentConfirmations up to its update: the select of the counter
\* (current?.confirmations || 0) and the new value.
UpdateIncidentConfirmationsSelect(p, incidentId, delta) ==
  /\ FreeProc(p)
  /\ LET currentConfirmations ==
           IF incidentId \in 1 .. Len(incidents)
             THEN incidents[incidentId].confirmations ELSE 0
     IN /\ currentConfirmations + delta <= MaxCount
        /\ calls' = [calls EXCEPT ![p] =
             [op |-> "updateIncidentConfirmations", pc |-> "update",
              incidentId |-> incidentId, delta |-> delta,
              newConfirmations |-> NewConfirmations(currentConfirmations, delta)]]
  /\ UNCHANGED <<now, incidents, confirmations, users, pendingReports, channel,
                 lastReply, lastVote>>
  /\ UNCHANGED <<flowVars, hostVars>>

\* updateIncidentConfirmations, the update: counter and status in one statement.
UpdateIncidentConfirmationsUpdate(p) ==
  /\ calls[p].op = "updateIncidentConfirmations"
  /\ LET id == calls[p].incidentId
         n == calls[p].newConfirmations
     IN incidents' =
          IF id \in 1 .. Len(incidents)
            THEN [incidents EXCEPT ![id] =
                   [@ EXCEPT !.confirmations = n, !.status = ConfirmationStatus(n)]]
            ELSE incidents
  /\ calls' = [calls EXCEPT ![p] = Idle]
  /\ UNCHANGED <<now, confirmations, users, pendingReports, channel, lastReply, lastVote>>
  /\ UNCHANGED <<flowVars, hostVars>>

\* updateUserTrustScore up to its update: the select of the score and the
\* clamped new score.  Without the user it returns false.
UpdateUserTrustScoreSelect(p, telegramId, delta) ==
  /\ FreeProc(p)
  /\ Cardinality(UserRows(telegramId)) = 1
  /\ LET user == users[CHOOSE k \in UserRows(telegramId) : TRUE] IN
       calls' = [calls EXCEPT ![p] =
         [op |-> "updateUserTrustScore", pc |-> "update",
          telegramId |-> telegramId,
          newScore |-> NewScore(user.trust_score, delta)]]
  /\ UNCHANGED <<now, incidents, confirmations, users, pendingReports, channel,
                 lastReply, lastVote>>
  /\ UNCHANGED <<flowVars, hostVars>>

\* updateUserTrustScore, the update.
UpdateUserTrustScoreUpdate(p) ==
  /\ calls[p].op = "updateUserTrustScore"
  /\ users' = [k \in 1 .. Len(users) |->
                 IF users[k].telegram_id = calls[p].telegramId
                   THEN [users[k] EXCEPT !.trust_score = calls[p].newScore]
                   ELSE users[k]]
  /\ calls' = [calls EXCEPT ![p] = Idle]
  /\ UNCHANGED <<now, incidents, confirmations, pendingReports, channel,
                 lastReply, lastVote>>
  /\ UNCHANGED <<flowVars, hostVars>>

\* --------------------------------------------------------- texts and the AI

\* A text is the sequence of its words; /\b(w1|w2)\b/i.test(text) is the test
\* that one of the words occurs in it.
Contains(text, words) == \E k \in 1 .. Len(text) : text[k] \in words

\* The first test of bot.on('text'): the SOS keywords.
PanicWords == {"sos", "panic", "urgence", "emergency", "help", "au secours"}
IsPanic(text) == Contains(text, PanicWords)

\* The emergency test of fallbackParse misses its "aide".
FallbackParseNoAide(text) ==
  LET isEmergency ==
        Contains(text, {"sos", "urgence", "emergency", "help", "au secours"})
  IN [type |-> IF isEmergency THEN "sos" ELSE "other",
      severity |-> IF isEmergency THEN 5 ELSE 3,
      description |-> text,
      isEmergency |-> isEmergency,
      confidence |-> 6,
      potentialCrash |-> FALSE,
      potholeHit |-> FALSE]

\* fallbackParse: the rule-based classifier.  The texts of the model are
\* shorter than 100 characters, so text.slice(0, 100) is the text.  The
\* confidence is in tenths.  \b sees no boundary after a final accented letter
\* (it knows the ASCII word characters only), so the keyword "cassé" matches
\* only when a letter follows, as in "cassée", and never as a whole word; the
\* keywords with an inner accent match as they are.
FallbackParse(text) ==
  LET isEmergency ==
        Contains(text, {"sos", "urgence", "emergency", "help", "au secours", "aide"})
      type ==
        IF Contains(text, {"accident", "collision", "crash"}) THEN "accident"
        ELSE IF Contains(text, {"police", "gendarmerie", "contrôle", "control",
                                "checkpoint"})
          THEN "police_control"
        ELSE IF Contains(text, {"flood", "inondation", "eau", "water"})
          THEN "flooding"
        ELSE IF Contains(text, {"embouteillage", "bouchon", "jam", "traffic",
                                "congestion"})
          THEN "traffic_jam"
        ELSE IF Contains(text, {"travaux", "chantier", "works", "construction"})
          THEN "road_works"
        ELSE IF Contains(text, {"arbre", "débris", "danger", "hazard", "fallen",
                                "tree"})
          THEN "hazard"
        ELSE IF Contains(text, {"route", "road", "trou", "hole", "damage",
                                "cassée"})
          THEN "road_damage"
        ELSE IF Contains(text, {"protest", "manifestation", "grève", "strike"})
          THEN "protest"
        ELSE IF Contains(text, {"barrage", "roadblock", "block"})
          THEN "roadblock"
        ELSE "other"
  IN [type |-> IF isEmergency THEN "sos" ELSE type,
      severity |-> IF isEmergency THEN 5 ELSE 3,
      description |-> text,
      isEmergency |-> isEmergency,
      confidence |-> 6,
      potentialCrash |-> FALSE,
      potholeHit |-> FALSE]

\* What a call of the backend can come to: generateContent (or the download of
\* the file) throws, the response holds no {...}, JSON.parse throws on what was
\* extracted, or an object is parsed.
Flooding4 ==
  [type |-> "flooding", severity |-> 4, description |-> <<"flood">>,
   isEmergency |-> FALSE, confidence |-> 9, potentialCrash |-> FALSE, potholeHit |-> FALSE]
Other3 ==
  [type |-> "other", severity |-> 3, description |-> <<"hello">>,
   isEmergency |-> FALSE, confidence |-> 9, potentialCrash |-> FALSE, potholeHit |-> FALSE]
Crash3 ==
  [type |-> "other", severity |-> 3, description |-> <<>>,
   isEmergency |-> FALSE, confidence |-> 9, potentialCrash |-> TRUE, potholeHit |-> FALSE]
Meteor9 ==
  [type |-> "meteor", severity |-> 9, description |-> <<"hello">>,
   isEmergency |-> FALSE, confidence |-> 9, potentialCrash |-> FALSE, potholeHit |-> FALSE]
GeminiJson == {Flooding4, Other3, Crash3, Meteor9}
Failures == {[kind |-> "throws"], [kind |-> "noJson"], [kind |-> "badJson"]}
GeminiOutcomes == Failures \cup {[kind |-> "json", parsed |-> r] : r \in GeminiJson}


\* analyzeText never falls back: it returns null like the other two.
AnalyzeTextNoFallback(model, text, outcome) ==
  IF model /\ outcome.kind = "json" THEN outcome.parsed ELSE Null

\* GeminiClient.analyzeText and GeminiModel.analyzeText (the same code).
AnalyzeText(model, text, outcome) ==
  IF ~model THEN FallbackParse(text)
  ELSE IF outcome.kind = "json" THEN outcome.parsed
  ELSE FallbackParse(text)

\* analyzeVoice, analyzePhoto
AnalyzeMedia(model, outcome) ==
  IF ~model THEN Null
  ELSE IF outcome.kind = "json" THEN outcome.parsed
  ELSE Null

\* ------------------------------------------------- route and fuel requests

\* bot.command('route')
RouteCommand(telegramId) ==
  /\ pendingRoutes' = [pendingRoutes EXCEPT ![telegramId] = [step |-> "origin"]]
  /\ UNCHANGED <<now, incidents, confirmations, users, pendingReports, calls,
                 channel, lastReply, lastVote, pendingFuel, geminiModel, hostVars,
                 lastAnalysis>>

\* bot.command('fuel')
FuelCommand(telegramId) ==
  /\ pendingFuel' = [pendingFuel EXCEPT ![telegramId] =
       [step |-> "awaiting_location", stationId |-> FALSE, fuelType |-> FALSE]]
  /\ UNCHANGED <<now, incidents, confirmations, users, pendingReports, calls,
                 channel, lastReply, lastVote, pendingRoutes, geminiModel, hostVars,
                 lastAnalysis>>

\* bot.action(/^update_fuel_(.+)$/)
UpdateFuel(telegramId) ==
  /\ pendingFuel' = [pendingFuel EXCEPT ![telegramId] =
       [step |-> "awaiting_price", stationId |-> TRUE, fuelType |-> FALSE]]
  /\ UNCHANGED <<now, incidents, confirmations, users, pendingReports, calls,
                 channel, lastReply, lastVote, pendingRoutes, geminiModel, hostVars,
                 lastAnalysis>>

\* bot.action(/^fuel_type_(.+)$/)
FuelType(telegramId) ==
  /\ pendingFuel' =
       IF pendingFuel[telegramId] # NoFuel /\ pendingFuel[telegramId].stationId
         THEN [pendingFuel EXCEPT ![telegramId].fuelType = TRUE]
         ELSE pendingFuel
  /\ UNCHANGED <<now, incidents, confirmations, users, pendingReports, calls,
                 channel, lastReply, lastVote, pendingRoutes, geminiModel, hostVars,
                 lastAnalysis>>

\* handleRouteLocation: the origin, then the destination and the directions.
HandleRouteLocation(telegramId) ==
  /\ pendingRoutes' = [pendingRoutes EXCEPT ![telegramId] =
       IF @.step = "origin" THEN [step |-> "destination"] ELSE NoRoute]
  /\ lastReply' = "route"
  /\ UNCHANGED <<now, incidents, confirmations, users, pendingReports, calls,
                 channel, lastVote, pendingFuel, geminiModel, hostVars, lastAnalysis>>

\* The fuel branch of bot.on('location'): the request is deleted, findFuel
\* answers.
FindFuel(telegramId) ==
  /\ pendingFuel' = [pendingFuel EXCEPT ![telegramId] = NoFuel]
  /\ lastReply' = "fuel"
  /\ UNCHANGED <<now, incidents, confirmations, users, pendingReports, calls,
                 channel, lastVote, pendingRoutes, geminiModel, hostVars, lastAnalysis>>

\* bot.on('location'): a route request takes the location, else a fuel request
\* awaiting its location, else handleLocation.
OnLocation(p, telegramId, location) ==
  IF pendingRoutes[telegramId] # NoRoute
    THEN HandleRouteLocation(telegramId)
    ELSE IF pendingFuel[telegramId].step = "awaiting_location"
      THEN FindFuel(telegramId)
      ELSE HandleLocation(p, telegramId, location)

\* ----------------------------------------------- text, voice, photo, panic

\* The lowest slot free in a table of calls.
FreeIn(table, p) ==
  table[p] = Idle /\ \A q \in Procs : q < p => table[q] # Idle

\* handlePanic up to its await of getOrCreateUser.
HandlePanic(p, telegramId) ==
  /\ FreeProc(p)
  /\ calls' = [calls EXCEPT ![p] =
       [op |-> "handlePanic", pc |-> "getOrCreateUser", userId |-> telegramId]]
  /\ UNCHANGED <<now, incidents, confirmations, users, pendingReports, channel,
                 lastReply, lastVote>>
  /\ UNCHANGED <<flowVars, hostVars>>

\* handlePanic after getOrCreateUser: the prompts, and the pending report is
\* set whatever entry the reporter had.
HandlePanicSet(p) ==
  /\ calls[p].op = "handlePanic"
  /\ users' = IF HasUser(calls[p].userId) THEN users
              ELSE Append(users, NewUser(calls[p].userId))
  /\ pendingReports' = [pendingReports EXCEPT ![calls[p].userId] =
       [step |-> "awaiting_location", type |-> "accident",
        description |-> <<"SOS", "PANIC", "BUTTON", "ACTIVATED">>,
        severity |-> 5]]
  /\ calls' = [calls EXCEPT ![p] = Idle]
  /\ UNCHANGED <<now, incidents, confirmations, channel, lastReply, lastVote>>
  /\ UNCHANGED <<flowVars, hostVars>>

\* parseInt(text.replace(/[^0-9]/g, '')) within 100 .. 2000: the only digits of
\* the model's words are those of "730".
ValidPrice(text) == Cardinality({k \in 1 .. Len(text) : text[k] = "730"}) = 1

\* bot.on('text') from "3. Pending Flows" on.  released is the table of calls
\* once the handler has returned; the smart analysis suspends it in slot p.
OnTextFlows(p, telegramId, text, released) ==
  LET pending == pendingReports[telegramId]
      routeReq == pendingRoutes[telegramId]
  IN /\ IF pending.step = "awaiting_description"
          THEN /\ pendingReports' = [pendingReports EXCEPT ![telegramId] =
                    WithDescription(@, text)]
               /\ calls' = released
               /\ UNCHANGED lastReply
          ELSE IF routeReq.step = "destination"
            THEN /\ lastReply' = "shareDestination"
                 /\ calls' = released
                 /\ UNCHANGED pendingReports
            ELSE IF pending = NoPending /\ routeReq = NoRoute
              THEN /\ FreeIn(released, p)
                   /\ calls' = [released EXCEPT ![p] =
                        [op |-> "onText", pc |-> "analyzeText",
                         userId |-> telegramId, text |-> text]]
                   /\ UNCHANGED <<pendingReports, lastReply>>
              ELSE /\ calls' = released
                   /\ UNCHANGED <<pendingReports, lastReply>>
     /\ UNCHANGED <<now, incidents, confirmations, users, channel, lastVote>>
     /\ UNCHANGED <<flowVars, hostVars>>

\* bot.on('text') up to its first await.  '/start' and the button labels never
\* get here: bot.command and bot.hears, registered before, take them.
OnText(p, telegramId, text) ==
  LET fuelState == pendingFuel[telegramId] IN
    IF IsPanic(text)
      THEN HandlePanic(p, telegramId)
      ELSE IF /\ fuelState.step = "awaiting_price"
              /\ fuelState.stationId
              /\ fuelState.fuelType
        THEN IF ~ValidPrice(text)
               THEN /\ lastReply' = "invalidPrice"
                    /\ UNCHANGED <<now, incidents, confirmations, users,
                                   pendingReports, calls, channel, lastVote>>
                    /\ UNCHANGED <<flowVars, hostVars>>
               ELSE /\ FreeProc(p)
                    /\ calls' = [calls EXCEPT ![p] =
                         [op |-> "onText", pc |-> "getNearbyFuel",
                          userId |-> telegramId, text |-> text]]
                    /\ UNCHANGED <<now, incidents, confirmations, users,
                                   pendingReports, channel, lastReply, lastVote>>
                    /\ UNCHANGED <<flowVars, hostVars>>
        ELSE OnTextFlows(p, telegramId, text, calls)

\* bot.on('text') after getNearbyFuel: with the station the price is saved and
\* the request deleted; without it the handler goes on to the flows.
OnTextFuelReturn(p) ==
  /\ calls[p].op = "onText"
  /\ calls[p].pc = "getNearbyFuel"
  /\ \E found \in BOOLEAN :
       IF found
         THEN /\ pendingFuel' = [pendingFuel EXCEPT ![calls[p].userId] = NoFuel]
              /\ lastReply' = "priceUpdated"
              /\ calls' = [calls EXCEPT ![p] = Idle]
              /\ UNCHANGED <<now, incidents, confirmations, users,
                             pendingReports, channel, lastVote, pendingRoutes,
                             geminiModel, hostVars, lastAnalysis>>
         ELSE OnTextFlows(p, calls[p].userId, calls[p].text,
                          [calls EXCEPT ![p] = Idle])

\* The outcome as the client sees it: without a model no call is made.
Seen(outcome) == IF geminiModel THEN outcome ELSE [kind |-> "notConfigured"]

\* INCIDENT_TYPES[type] is defined: reading a field of typeInfo does not throw.
HasTypeInfo(type) == type \in IncidentTypes

\* bot.on('text') after analyzeText: a result other than 'other' is set as the
\* reporter's pending report; else the help fallback answers (the texts of the
\* model are shorter than 50 characters).
OnTextAnalyzed(p) ==
  /\ calls[p].op = "onText"
  /\ calls[p].pc = "analyzeText"
  /\ \E outcome \in GeminiOutcomes :
       LET parsed == AnalyzeText(geminiModel, calls[p].text, outcome)
           detected == parsed # Null /\ parsed.type # "other"
           reply == IF ~detected THEN "help"
                    ELSE IF HasTypeInfo(parsed.type) THEN "detected"
                    ELSE "none"
       IN /\ pendingReports' =
               IF detected
                 THEN [pendingReports EXCEPT ![calls[p].userId] =
                        [step |-> "awaiting_location", type |-> parsed.type,
                         description |-> parsed.description,
                         severity |-> parsed.severity]]
                 ELSE pendingReports
          /\ lastReply' = IF reply = "none" THEN lastReply ELSE reply
          /\ lastAnalysis' =
               [kind |-> "text", userId |-> calls[p].userId,
                text |-> calls[p].text, outcome |-> Seen(outcome),
                parsed |-> parsed, reply |-> reply]
  /\ calls' = [calls EXCEPT ![p] = Idle]
  /\ UNCHANGED <<now, incidents, confirmations, users, channel, lastVote,
                 pendingRoutes, pendingFuel, geminiModel, hostVars>>

\* handleVoice and handlePhoto up to their awaits (getFileLink, the analysis).
HandleMedia(p, telegramId, kind) ==
  /\ FreeProc(p)
  /\ calls' = [calls EXCEPT ![p] =
       [op |-> kind, pc |-> "analyze", userId |-> telegramId]]
  /\ UNCHANGED <<now, incidents, confirmations, users, pendingReports, channel,
                 lastReply, lastVote>>
  /\ UNCHANGED <<flowVars, hostVars>>

\* bot.on('voice')
HandleVoice(p, telegramId) == HandleMedia(p, telegramId, "handleVoice")

\* bot.on('photo')
HandlePhoto(p, telegramId) == HandleMedia(p, telegramId, "handlePhoto")

\* The pending report handleVoice sets.
VoicePending(analysis) ==
  LET isAutoDetect == analysis.potentialCrash \/ analysis.potholeHit IN
    [step |-> "awaiting_location",
     type |-> IF isAutoDetect
                THEN (IF analysis.potentialCrash THEN "accident"
                      ELSE "road_damage")
                ELSE analysis.type,
     description |-> IF analysis.description # <<>> THEN analysis.description
                     ELSE IF isAutoDetect THEN <<"Auto-detected">>
                     ELSE <<"Voice", "report">>,
     severity |-> IF isAutoDetect THEN 4 ELSE analysis.severity]

\* handleVoice after its awaits.  getFileLink may throw and analyzeVoice may
\* return null (thrown on): the catch answers that the analysis failed.
HandleVoiceAnalyzed(p) ==
  /\ calls[p].op = "handleVoice"
  /\ \E link \in BOOLEAN, outcome \in GeminiOutcomes :
       LET analysis == IF link THEN AnalyzeMedia(geminiModel, outcome) ELSE Null
           detected ==
             /\ analysis # Null
             /\ \/ analysis.type # "other"
                \/ analysis.potentialCrash
                \/ analysis.potholeHit
           reply == IF analysis = Null THEN "analysisFailed"
                    ELSE IF ~detected THEN "notUnderstood"
                    ELSE IF HasTypeInfo(VoicePending(analysis).type) THEN "voiceDone"
                    ELSE "analysisFailed"
       IN /\ pendingReports' =
               IF detected
                 THEN [pendingReports EXCEPT ![calls[p].userId] =
                        VoicePending(analysis)]
                 ELSE pendingReports
          /\ lastReply' = reply
          /\ lastAnalysis' =
               [kind |-> "voice", userId |-> calls[p].userId, text |-> <<>>,
                outcome |-> IF link THEN Seen(outcome) ELSE [kind |-> "noLink"],
                parsed |-> analysis, reply |-> reply]
  /\ calls' = [calls EXCEPT ![p] = Idle]
  /\ UNCHANGED <<now, incidents, confirmations, users, channel, lastVote,
                 pendingRoutes, pendingFuel, geminiModel, hostVars>>

\* handlePhoto after its awaits.  There is no catch and no else: when
\* getFileLink throws, or the analysis is null or 'other', nothing is answered.
HandlePhotoAnalyzed(p) ==
  /\ calls[p].op = "handlePhoto"
  /\ \E link \in BOOLEAN, outcome \in GeminiOutcomes :
       LET analysis == IF link THEN AnalyzeMedia(geminiModel, outcome) ELSE Null
           detected == analysis # Null /\ analysis.type # "other"
           reply == IF detected /\ HasTypeInfo(analysis.type)
                      THEN "photoDone" ELSE "none"
       IN /\ pendingReports' =
               IF detected
                 THEN [pendingReports EXCEPT ![calls[p].userId] =
                        [step |-> "awaiting_location", type |-> analysis.type,
                         description |-> analysis.description,
                         severity |-> analysis.severity]]
                 ELSE pendingReports
          /\ lastReply' = IF reply = "none" THEN lastReply ELSE reply
          /\ lastAnalysis' =
               [kind |-> "photo", userId |-> calls[p].userId, text |-> <<>>,
                outcome |-> IF link THEN Seen(outcome) ELSE [kind |-> "noLink"],
                parsed |-> analysis, reply |-> reply]
  /\ calls' = [calls EXCEPT ![p] = Idle]
  /\ UNCHANGED <<now, incidents, confirmations, users, channel, lastVote,
                 pendingRoutes, pendingFuel, geminiModel, hostVars>>

\* ----------------------------------------------------------- specifications

\* /start and the reset.
Registration ==
  \/ \E p \in Procs, u \in Reporters : StartCommand(p, u)
  \/ \E p \in Procs, u \in Reporters : MainMenu(p, u)
  \/ \E p \in Procs : GetOrCreateUserInsert(p)

\* A report from the type selection to the broadcast.
Intake ==
  \/ \E u \in Reporters, t \in Types : SelectType(u, t)
  \/ \E u \in Reporters : OnTextDescription(u, <<"flood">>)
  \/ \E p \in Procs, u \in Reporters, l \in Locations : HandleLocation(p, u, l)
  \/ \E p \in Procs : HandleLocationCreateIncident(p)
  \/ \E p \in Procs : HandleLocationReward(p)
  \/ \E p \in Procs : HandleLocationSendToChannel(p)

\* The route of the native app.
Api ==
  \E u \in Reporters, t \in Types, l \in Locations, s \in ApiSeverities :
    ApiReport(u, t, l, s)

\* The community votes.
Voting ==
  \/ \E u \in Reporters, i \in IncidentIds : ConfirmAction(u, i)
  \/ \E u \in Reporters, i \in IncidentIds : RejectAction(u, i)

\* updateIncidentConfirmations, which no handler calls, under any caller.
ConfirmationsCall ==
  \/ \E p \in Procs, i \in IncidentIds, d \in ConfirmationDeltas :
       UpdateIncidentConfirmationsSelect(p, i, d)
  \/ \E p \in Procs : UpdateIncidentConfirmationsUpdate(p)

\* updateUserTrustScore, which no handler calls, under any caller.
TrustCall ==
  \/ \E p \in Procs, u \in Reporters, d \in TrustDeltas :
       UpdateUserTrustScoreSelect(p, u, d)
  \/ \E p \in Procs : UpdateUserTrustScoreUpdate(p)

\* Texts, voice notes, photos, route and fuel requests, and the locations as
\* bot.on('location') dispatches them.
Dialog ==
  \/ \E p \in Procs, u \in Reporters, text \in DialogTexts : OnText(p, u, text)
  \/ \E p \in Procs : OnTextFuelReturn(p)
  \/ \E p \in Procs : OnTextAnalyzed(p)
  \/ \E p \in Procs : HandlePanicSet(p)
  \/ \E p \in Procs, u \in Reporters : HandleVoice(p, u)
  \/ \E p \in Procs : HandleVoiceAnalyzed(p)
  \/ \E p \in Procs, u \in Reporters : HandlePhoto(p, u)
  \/ \E p \in Procs : HandlePhotoAnalyzed(p)
  \/ \E u \in Reporters : RouteCommand(u)
  \/ \E u \in Reporters : FuelCommand(u)
  \/ \E u \in Reporters : UpdateFuel(u)
  \/ \E u \in Reporters : FuelType(u)
  \/ \E p \in Procs, u \in Reporters, l \in Locations : OnLocation(p, u, l)

\* The program as it is wired (handlers, route, scheduler) with the whole store
\* API under any caller.  Its state space is the product of the parts below;
\* each part is this program with the rest of its environment silent, and a
\* property is checked on the part that holds every action writing what the
\* property reads.
Next ==
  \/ Advance
  \/ RunExpiryCleanup
  \/ Registration
  \/ Intake
  \/ Dialog
  \/ Api
  \/ Voting
  \/ ConfirmationsCall
  \/ TrustCall

Spec == Init /\ [][Next]_vars

\* Both reporters are registered.
InitRegistered ==
  /\ now = 0
  /\ incidents = <<>>
  /\ confirmations = EmptyBag
  /\ users = <<NewUser("A"), NewUser("B")>>
  /\ pendingReports = [u \in Reporters |-> NoPending]
  /\ calls = [p \in Procs |-> Idle]
  /\ channel = <<>>
  /\ lastReply = NoReply
  /\ lastVote = NoVote
  /\ pendingRoutes = [u \in Reporters |-> NoRoute]
  /\ pendingFuel = [u \in Reporters |-> NoFuel]
  /\ geminiModel = TRUE
  /\ lastAnalysis = NoAnalysis
  /\ InitHost

\* Registered reporters file reports through the bot as time passes; A's
\* finalization runs in slot 1 and B's, started meanwhile, in slot 2.
NextIntake ==
  \/ Advance
  \/ \E p \in Procs, u \in Reporters : MainMenu(p, u)
  \/ \E u \in Reporters, t \in Types : SelectType(u, t)
  \/ \E u \in Reporters : OnTextDescription(u, <<"flood">>)
  \/ \E l \in Locations : HandleLocation(1, "A", l)
  \/ \E l \in Locations : HandleLocation(2, "B", l)
  \/ \E p \in Procs : HandleLocationCreateIncident(p)
  \/ \E p \in Procs : HandleLocationReward(p)
  \/ \E p \in Procs : HandleLocationSendToChannel(p)

SpecIntake == InitRegistered /\ [][NextIntake]_vars

\* Reporters register, the native app files reporter A's flooding reports at
\* Bastos, and everybody votes.
NextVotes ==
  \/ \E p \in Procs, u \in Reporters : StartCommand(p, u)
  \/ \E p \in Procs : GetOrCreateUserInsert(p)
  \/ ApiReport("A", "flooding", Bastos, 0)
  \/ Voting

SpecVotes == Init /\ [][NextVotes]_vars

\* Reporter A files flooding reports at Bastos through the native app and
\* through the bot (one finalization at a time), the counter of confirmations
\* is updated by any caller, time passes and the sweep runs.
NextStore ==
  \/ Advance
  \/ RunExpiryCleanup
  \/ ApiReport("A", "flooding", Bastos, 0)
  \/ SelectType("A", "flooding")
  \/ OnTextDescription("A", <<"flood">>)
  \/ HandleLocation(1, "A", Bastos)
  \/ \E p \in Procs : HandleLocationCreateIncident(p)
  \/ \E p \in Procs : HandleLocationReward(p)
  \/ \E p \in Procs : HandleLocationSendToChannel(p)
  \/ ConfirmationsCall

SpecStore == InitRegistered /\ [][NextStore]_vars

\* The native app and the bot create incidents of every type, place and
\* severity of the model while time passes.
NextFetch ==
  \/ Advance
  \/ \E userId \in Reporters, type \in Types, location \in Locations,
        severity \in ApiSeverities :
       ApiReport(userId, type, location, severity)
  \/ \E type \in Types : SelectType("A", type)
  \/ OnTextDescription("A", <<"flood">>)
  \/ \E location \in Locations : HandleLocation(1, "A", location)
  \/ \E p \in Procs : HandleLocationCreateIncident(p)
  \/ \E p \in Procs : HandleLocationReward(p)
  \/ \E p \in Procs : HandleLocationSendToChannel(p)

SpecFetch == InitRegistered /\ [][NextFetch]_vars

\* The scheduler is started and stopped in any order while the native app
\* files reports and time passes.
NextScheduler ==
  \/ Advance
  \/ ApiReport("A", "flooding", Bastos, 0)
  \/ SchedulerStart
  \/ SchedulerStop
  \/ \E k \in 1 .. Len(timers) : ExpiryTick(k)
  \/ \E k \in 1 .. Len(timers) : BriefTick(k)

SpecScheduler == InitRegistered /\ [][NextScheduler]_vars

\* Reporters register and their trust score is updated by any caller.
NextTrust ==
  \/ \E p \in Procs, u \in Reporters : StartCommand(p, u)
  \/ \E p \in Procs : GetOrCreateUserInsert(p)
  \/ TrustCall

SpecTrust == Init /\ [][NextTrust]_vars

\* The native app files reporter A's flooding reports at Bastos, the counter
\* of confirmations is updated by any caller, and reporters reject.
NextDeny ==
  \/ ApiReport("A", "flooding", Bastos, 0)
  \/ ConfirmationsCall
  \/ \E u \in Reporters, i \in IncidentIds : RejectAction(u, i)

SpecDeny == InitRegistered /\ [][NextDeny]_vars

\* analyzeText under any caller.
AnalyzeTextCall(telegramId, text, outcome) ==
  /\ lastAnalysis' =
       [kind |-> "text", userId |-> telegramId, text |-> text,
        outcome |-> Seen(outcome),
        parsed |-> AnalyzeText(geminiModel, text, outcome), reply |-> "none"]
  /\ UNCHANGED <<now, incidents, confirmations, users, pendingReports, calls,
                 channel, lastReply, lastVote, pendingRoutes, pendingFuel,
                 geminiModel, hostVars>>

\* The texts of at most MaxWords words.
MaxWords == 2
Texts == UNION {[1 .. n -> Words] : n \in 1 .. MaxWords}

\* Both reporters are registered; the AI client has its model or not.
InitDialog ==
  /\ now = 0
  /\ incidents = <<>>
  /\ confirmations = EmptyBag
  /\ users = <<NewUser("A"), NewUser("B")>>
  /\ pendingReports = [u \in Reporters |-> NoPending]
  /\ calls = [p \in Procs |-> Idle]
  /\ channel = <<>>
  /\ lastReply = NoReply
  /\ lastVote = NoVote
  /\ pendingRoutes = [u \in Reporters |-> NoRoute]
  /\ pendingFuel = [u \in Reporters |-> NoFuel]
  /\ geminiModel \in BOOLEAN
  /\ lastAnalysis = NoAnalysis
  /\ InitHost

\* Reporter A talks to the bot in text: reports by menu, by classified text and
\* by panic keyword, route requests, fuel prices, resets.  No location is sent.
NextDialog ==
  \/ \E p \in Procs : StartCommand(p, "A")
  \/ \E p \in Procs : MainMenu(p, "A")
  \/ \E t \in Types : SelectType("A", t)
  \/ \E p \in Procs, text \in DialogTexts : OnText(p, "A", text)
  \/ \E p \in Procs : OnTextFuelReturn(p)
  \/ \E p \in Procs : OnTextAnalyzed(p)
  \/ \E p \in Procs : HandlePanicSet(p)
  \/ RouteCommand("A")
  \/ UpdateFuel("A")
  \/ FuelType("A")

SpecDialog == InitDialog /\ [][NextDialog]_vars

\* Reporter A sends voice notes and photos, between type selections and resets.
NextMedia ==
  \/ \E p \in Procs : MainMenu(p, "A")
  \/ \E t \in Types : SelectType("A", t)
  \/ \E p \in Procs : HandleVoice(p, "A")
  \/ \E p \in Procs : HandleVoiceAnalyzed(p)
  \/ \E p \in Procs : HandlePhoto(p, "A")
  \/ \E p \in Procs : HandlePhotoAnalyzed(p)

SpecMedia == InitDialog /\ [][NextMedia]_vars

\* Reporter A files reports by menu and sends locations, with route and fuel
\* requests in between.
NextLocation ==
  \/ \E p \in Procs : MainMenu(p, "A")
  \/ SelectType("A", "flooding")
  \/ OnTextDescription("A", <<"flood">>)
  \/ RouteCommand("A")
  \/ FuelCommand("A")
  \/ \E p \in Procs : OnLocation(p, "A", Bastos)
  \/ \E p \in Procs : HandleLocationCreateIncident(p)
  \/ \E p \in Procs : HandleLocationReward(p)
  \/ \E p \in Procs : HandleLocationSendToChannel(p)

SpecLocation == InitRegistered /\ [][NextLocation]_vars

\* Reporter A has picked flooding and described it: the report awaits its
\* location.
InitAwaitingLocation ==
  /\ now = 0
  /\ incidents = <<>>
  /\ confirmations = EmptyBag
  /\ users = <<NewUser("A"), NewUser("B")>>
  /\ pendingReports =
       [u \in Reporters |->
          IF u = "A"
            THEN [step |-> "awaiting_location", type |-> "flooding",
                  description |-> <<"flood">>, severity |-> 0]
            ELSE NoPending]
  /\ calls = [p \in Procs |-> Idle]
  /\ channel = <<>>
  /\ lastReply = NoReply
  /\ lastVote = NoVote
  /\ pendingRoutes = [u \in Reporters |-> NoRoute]
  /\ pendingFuel = [u \in Reporters |-> NoFuel]
  /\ geminiModel = TRUE
  /\ lastAnalysis = NoAnalysis
  /\ InitHost

\* Reporter A sends locations for that one report, and asks for routes and
\* fuel; no other report is begun.
NextRace ==
  \/ RouteCommand("A")
  \/ FuelCommand("A")
  \/ \E p \in Procs : OnLocation(p, "A", Bastos)
  \/ \E p \in Procs : HandleLocationCreateIncident(p)
  \/ \E p \in Procs : HandleLocationReward(p)
  \/ \E p \in Procs : HandleLocationSendToChannel(p)

SpecRace == InitAwaitingLocation /\ [][NextRace]_vars

\* The handler slot each reporter's updates run in.
Slot(u) == IF u = "A" THEN 1 ELSE 2

\* Both reporters file reports by menu, reset and send locations; reporter A
\* also files them by classified text and by panic keyword, and the texts of
\* reporter B are descriptions.
NextPair ==
  \/ \E u \in Reporters : MainMenu(Slot(u), u)
  \/ \E u \in Reporters : SelectType(u, "flooding")
  \/ \E text \in {<<"flood">>, <<"help">>} : OnText(Slot("A"), "A", text)
  \/ OnTextDescription("B", <<"flood">>)
  \/ \E p \in Procs : OnTextAnalyzed(p)
  \/ \E p \in Procs : HandlePanicSet(p)
  \/ \E u \in Reporters : OnLocation(Slot(u), u, Bastos)
  \/ \E p \in Procs : HandleLocationCreateIncident(p)
  \/ \E p \in Procs : HandleLocationReward(p)
  \/ \E p \in Procs : HandleLocationSendToChannel(p)

SpecPair == InitRegistered /\ [][NextPair]_vars

\* analyzeText is called with any text, whatever the backend does.
NextAnalyze ==
  \E u \in Reporters, text \in Texts, outcome \in GeminiOutcomes :
    AnalyzeTextCall(u, text, outcome)

SpecAnalyze == InitDialog /\ [][NextAnalyze]_vars

\* testModels: the model that getModel returned analyzes a text.
TestAnalyzeText(text, outcome) ==
  /\ lastModel.model = "GeminiModel"
  /\ AnalyzeTextCall("A", text, outcome)

\* As InitDialog, with any configured default model.
InitFactory ==
  /\ now = 0
  /\ incidents = <<>>
  /\ confirmations = EmptyBag
  /\ users = <<NewUser("A"), NewUser("B")>>
  /\ pendingReports = [u \in Reporters |-> NoPending]
  /\ calls = [p \in Procs |-> Idle]
  /\ channel = <<>>
  /\ lastReply = NoReply
  /\ lastVote = NoVote
  /\ pendingRoutes = [u \in Reporters |-> NoRoute]
  /\ pendingFuel = [u \in Reporters |-> NoFuel]
  /\ geminiModel \in BOOLEAN
  /\ lastAnalysis = NoAnalysis
  /\ timers = <<>>
  /\ morningBriefInterval = 0
  /\ expiryInterval = 0
  /\ lastSchedulerCall = "none"
  /\ defaultModel \in DefaultNames
  /\ lastModel = NoModel

\* Models are asked for by name or without, and the gemini model returned
\* analyzes one-word texts.
NextFactory ==
  \/ \E name \in ModelNames : GetModelCall(name)
  \/ \E text \in {<<w>> : w \in Words}, outcome \in GeminiOutcomes :
       TestAnalyzeText(text, outcome)

SpecFactory == InitFactory /\ [][NextFactory]_vars

\* ------------------------------------------------------------- properties

\* The reporters whose confirm vote on the incident was accepted.
Confirmers(incidentId) ==
  {u \in Reporters :
     CopiesIn(ConfirmationRow(incidentId, u, "confirm"), confirmations) > 0}

\* C1: under the votes of the confirm and reject actions, an incident is
\* verified if and only if two distinct reporters' confirm votes on it were
\* accepted.
C1_VerifiedIffTwoConfirmers ==
  \A i \in 1 .. Len(incidents) :
    (incidents[i].status = "verified")
      <=> (Cardinality(Confirmers(i)) >= VerifyThreshold)

\* A step of updateIncidentConfirmations' update whose delta is negative.
NegativeDeltaUpdate ==
  \E p \in Procs :
    /\ calls[p].op = "updateIncidentConfirmations"
    /\ calls[p].delta < 0
    /\ calls'[p] = Idle

\* A step of the reject action.
DenyVote == \E u \in Reporters, i \in IncidentIds : RejectAction(u, i)

\* C2: neither a deny vote nor an updateIncidentConfirmations with a negative
\* delta takes an incident from verified back to pending.
C2_DenyNeverReverts ==
  [][(DenyVote \/ NegativeDeltaUpdate) =>
       \A i \in 1 .. Len(incidents) :
         incidents[i].status = "verified" => incidents'[i].status # "pending"]_vars

\* C3: table confirmations holds at most one row per (incident, reporter),
\* whatever the vote.
C3_OneConfirmationPerPair ==
  \A i \in IncidentIds, u \in Reporters :
    CopiesIn(ConfirmationRow(i, u, "confirm"), confirmations)
      + CopiesIn(ConfirmationRow(i, u, "deny"), confirmations) <= 1

\* C3, its case: the last vote was a retry, refused because the pair had its
\* row, and the other reporter's row on the same incident is there too.
C3_RetryRefused ==
  /\ lastVote # NoVote
  /\ ~lastVote.success
  /\ UniqueViolation(lastVote.incidentId, lastVote.userId)
  /\ \E u \in Reporters \ {lastVote.userId} :
       UniqueViolation(lastVote.incidentId, u)

\* A step of the confirm or the reject action.
AnyVote ==
  \E u \in Reporters, i \in IncidentIds :
    ConfirmAction(u, i) \/ RejectAction(u, i)

\* C4: a vote is answered "already voted" (addConfirmation returned false) if
\* and only if the pair had its row before the vote, and then neither table
\* changes.
C4_FalseIffAlreadyVoted ==
  [][AnyVote =>
       /\ (~lastVote'.success)
            <=> UniqueViolation(lastVote'.incidentId, lastVote'.userId)
       /\ (~lastVote'.success) => UNCHANGED <<confirmations, incidents>>]_vars

\* One unit of latitude or longitude (1e-4 degree) in meters, at 111 km per
\* degree.
MetersPerUnit == 11

WithinMergeRadius(a, b) ==
  LET dlat == a.latitude - b.latitude
      dlon == a.longitude - b.longitude
  IN (dlat * dlat + dlon * dlon) * MetersPerUnit * MetersPerUnit
       <= MergeRadiusM * MergeRadiusM

WithinMergeWindow(t1, t2) ==
  t1 - t2 <= MergeWindowMin /\ t2 - t1 <= MergeWindowMin

\* Two reports of the same incident: same type, within 50 m and 10 minutes.
SameSpot(a, b) ==
  /\ a.type = b.type
  /\ WithinMergeRadius(a, b)
  /\ WithinMergeWindow(a.created_at, b.created_at)

\* C5: no two persisted incidents have the same type, locations within 50 m
\* and times within 10 minutes of each other.
C5_OneIncidentPerSpot ==
  \A i, j \in 1 .. Len(incidents) :
    i < j => ~SameSpot(incidents[i], incidents[j])

\* C6: two finalizations in flight together, of different reporters and for
\* the same spot, have not both inserted an incident of their own.
C6_NoTwoFreshIncidents ==
  \A p, q \in Procs :
    ( /\ p # q
      /\ calls[p].op = "handleLocation"
      /\ calls[q].op = "handleLocation"
      /\ calls[p].userId # calls[q].userId
      /\ SameSpot(InsertRow(calls[p].incidentData),
                  InsertRow(calls[q].incidentData))
      /\ calls[p].saved # 0
      /\ calls[q].saved # 0 )
    => calls[p].saved = calls[q].saved

\* C7: when the report that handleLocation persists matches an active incident,
\* no row is inserted: that incident's counter of confirmations goes up by one
\* and its expiry is not earlier than it was.
C7_MatchConfirmsInsteadOfInserting ==
  [][\A p \in Procs, i \in 1 .. Len(incidents) :
       ( /\ calls[p].op = "handleLocation"
         /\ calls[p].pc = "createIncident"
         /\ calls'[p].saved # 0
         /\ incidents[i].status \in {"pending", "verified"}
         /\ SameSpot(incidents[i], InsertRow(calls[p].incidentData)) )
       => /\ Len(incidents') = Len(incidents)
          /\ incidents'[i].confirmations = incidents[i].confirmations + 1
          /\ incidents'[i].expires_at >= incidents[i].expires_at]_vars

\* The incidents the sweep is due to expire at time t.
Stale(rows, t) ==
  {k \in 1 .. Len(rows) :
     rows[k].status \in {"pending", "verified"} /\ rows[k].expires_at < t}

\* C8: a sweep leaves every incident that was pending or verified with its
\* expiry in the past expired, and a second sweep right after it changes no
\* incident and counts 0 rows.
C8_SweepExpiresAndIsIdempotent ==
  [][RunExpiryCleanup =>
       /\ \A k \in Stale(incidents, now) : incidents'[k].status = "expired"
       /\ ExpireOldIncidents(incidents', now') = incidents'
       /\ RowCount(incidents', ExpireOldIncidents(incidents', now')) = 0]_vars

\* C8, its case: the sweep has expired an incident that was verified, and
\* another incident is still live.
C8_VerifiedIncidentExpired ==
  /\ \E k \in 1 .. Len(incidents) :
       /\ incidents[k].status = "expired"
       /\ incidents[k].confirmations >= VerifyThreshold
       /\ incidents[k].expires_at < now
  /\ \E k \in 1 .. Len(incidents) : incidents[k].status = "pending"

\* C9: a verified incident has at least two confirmations.
C9_VerifiedHasTwoConfirmations ==
  \A k \in 1 .. Len(incidents) :
    incidents[k].status = "verified" =>
      incidents[k].confirmations >= VerifyThreshold

\* C9, its case: an incident is verified while a call that takes a
\* confirmation off it is between its select and its update.
C9_VerifiedUnderDecrement ==
  \E k \in 1 .. Len(incidents), p \in Procs :
    /\ incidents[k].status = "verified"
    /\ calls[p].op = "updateIncidentConfirmations"
    /\ calls[p].incidentId = k
    /\ calls[p].delta < 0

\* C10: every user's trust score is within [0, 100].
C10_TrustScoreInRange ==
  \A k \in 1 .. Len(users) :
    users[k].trust_score >= MinTrust /\ users[k].trust_score <= MaxTrust

\* C10, its case: one score was clamped at 100, the other at 0, and an update
\* is in flight.
C10_ClampedBothEnds ==
  /\ \E k \in 1 .. Len(users) : users[k].trust_score = MaxTrust
  /\ \E k \in 1 .. Len(users) : users[k].trust_score = MinTrust
  /\ \E p \in Procs : calls[p].op = "updateUserTrustScore"

\* C19: analyzeText always returns a parsed result, never null; when the
\* client has no model, the call throws, the response holds no JSON or the
\* JSON does not parse, the result is exactly fallbackParse's for the text.
C19_AnalyzeTextFallsBack ==
  lastAnalysis.kind = "text" =>
    /\ lastAnalysis.parsed # Null
    /\ lastAnalysis.outcome.kind = "json" =>
         lastAnalysis.parsed = lastAnalysis.outcome.parsed
    /\ lastAnalysis.outcome.kind # "json" =>
         lastAnalysis.parsed = FallbackParse(lastAnalysis.text)

\* The response did not parse and the rules classified the text as an SOS.
C19_FallbackClassified ==
  /\ lastAnalysis.kind = "text"
  /\ lastAnalysis.outcome.kind = "badJson"
  /\ lastAnalysis.text = <<"flood", "aide">>
  /\ lastAnalysis.parsed.type = "sos"
  /\ lastAnalysis.parsed.severity = 5

\* A location message of reporter u is handled.
LocationFrom(u) == \E p \in Procs : OnLocation(p, u, Bastos)

\* C11: a location sent while the reporter's pending report awaits its
\* location always finalizes it, whatever route or fuel request the reporter
\* has: a finalization starts, and when it ends the incident is persisted and
\* the pending report removed.
C11_LocationAlwaysFinalizes ==
  [][/\ \A u \in Reporters :
          (pendingReports[u].step = "awaiting_location" /\ LocationFrom(u))
          => \E p \in Procs :
               /\ calls[p] = Idle
               /\ calls'[p].op = "handleLocation"
               /\ calls'[p].userId = u
     /\ \A p \in Procs :
          (calls[p].op = "handleLocation" /\ calls'[p] = Idle)
          => /\ calls[p].saved # 0
             /\ pendingReports'[calls[p].userId] = NoPending]_vars

\* Reporter u sends the text.
TextFrom(u, text) == \E p \in Procs : OnText(p, u, text)

\* The text is taken as the description of u's pending report, which moves on
\* to awaiting_location with its type.
TakenAsDescription(u, text) ==
  /\ pendingReports'[u].step = "awaiting_location"
  /\ pendingReports'[u].description = text
  /\ pendingReports'[u].type = pendingReports[u].type

\* The fuel price branch of bot.on('text') is open for u.
PriceAwaited(u) ==
  /\ pendingFuel[u].step = "awaiting_price"
  /\ pendingFuel[u].stationId
  /\ pendingFuel[u].fuelType

NothingToLocate(u) ==
  pendingReports[u].step \in {"none", "awaiting_description"}

\* Nothing is persisted, no finalization starts and the pending reports stay.
NothingPersisted ==
  /\ incidents' = incidents
  /\ calls' = calls
  /\ pendingReports' = pendingReports

\* C13 as stated: a location from a reporter with no pending report, or with
\* one still awaiting its description, persists no incident, leaves the
\* pending entry unchanged and is answered as a nearby-incident query.
C13_StrayLocationIsNearbyQuery ==
  [][\A u \in Reporters :
       (NothingToLocate(u) /\ LocationFrom(u))
       => NothingPersisted /\ lastReply' = "nearby"]_vars

\* C13: a location from a reporter with no pending report, or with one still
\* awaiting its description, persists no incident and leaves the pending entry
\* unchanged; it is answered as a nearby-incident query unless a route request
\* or a fuel request awaiting its location takes it.
C13_StrayLocationPersistsNothing ==
  [][\A u \in Reporters :
       (NothingToLocate(u) /\ LocationFrom(u))
       => /\ NothingPersisted
          /\ ( /\ pendingRoutes[u] = NoRoute
               /\ pendingFuel[u].step # "awaiting_location" )
             => lastReply' = "nearby"]_vars

\* A location was answered as a nearby query while A's report awaits its
\* description and nothing has been persisted.
C13_NearbyWhileAwaitingDescription ==
  /\ pendingReports["A"].step = "awaiting_description"
  /\ lastReply = "nearby"
  /\ incidents = <<>>
  /\ \A p \in Procs : calls[p] = Idle

\* Reporter u resets: the main-menu button or /start.
ResetBy(u) == \E p \in Procs : StartCommand(p, u) \/ MainMenu(p, u)

\* C14: after a reporter's reset (main-menu button or /start) the reporter
\* has no pending report, whatever step it was in.
C14_ResetDiscardsPending ==
  [][\A u \in Reporters :
       ResetBy(u) => pendingReports'[u] = NoPending]_vars

\* A finalization of u's report ends and removes the pending report.
FinalizedFor(u) ==
  \E p \in Procs :
    /\ calls[p].op = "handleLocation"
    /\ calls[p].userId = u
    /\ calls'[p] = Idle
    /\ pendingReports'[u] = NoPending

\* u's pending report gets its description and is otherwise the same.
Described(u) ==
  /\ pendingReports[u].step = "awaiting_description"
  /\ pendingReports'[u].step = "awaiting_location"
  /\ pendingReports'[u].type = pendingReports[u].type
  /\ pendingReports'[u].severity = pendingReports[u].severity

\* C15: a reporter's unfinished pending report is replaced or discarded only
\* by the reporter's reset or by finalization; a new report (type selection,
\* classified text, voice, photo, panic) does not overwrite it.
C15_PendingKeptUntilResetOrFinalization ==
  [][\A u \in Reporters :
       (pendingReports[u] # NoPending /\ pendingReports'[u] # pendingReports[u])
       => \/ (\E p \in Procs : MainMenu(p, u))
          \/ FinalizedFor(u)
          \/ Described(u)]_vars

\* C16: the messages of one reporter take effect one after the other: the
\* locations sent for one pending report awaiting its location persist
\* exactly one incident, however their handlers interleave.
C16_OneIncidentPerPendingReport == Len(incidents) <= 1

\* The AI call of the text handler in slot p returns.
AnalysisReturns(p) ==
  /\ calls[p].op = "onText"
  /\ calls[p].pc = "analyzeText"
  /\ calls'[p] = Idle

\* C17: the AI call is issued only for a reporter without pending report; when
\* its response arrives after the reporter has begun another report, the
\* response is discarded and the pending report stays as it is.
C17_LateAnalysisDiscarded ==
  [][\A p \in Procs :
       (AnalysisReturns(p) /\ pendingReports[calls[p].userId] # NoPending)
       => pendingReports' = pendingReports]_vars

\* handleLocation in slot p goes on after createIncident returned null.
GoesOnUnsaved(p) ==
  /\ calls[p].op = "handleLocation"
  /\ calls[p].pc = "incrementUserReports"
  /\ calls[p].saved = 0
  /\ calls'[p] # calls[p]

\* C18: when createIncident returns null the reporter is not told that the
\* report was received.
C18_FailureNotAcknowledged ==
  [][\A p \in Procs :
       GoesOnUnsaved(p) => lastReply' # "reportReceived"]_vars

\* The voice or photo handler in slot p ends with a failed analysis.
MediaAnalysisFailed(p) ==
  /\ calls[p].op \in {"handleVoice", "handlePhoto"}
  /\ calls'[p] = Idle
  /\ lastAnalysis'.parsed = Null

\* C20: when the analysis of a voice note or of a photo fails, no incident is
\* persisted, no pending report is created or changed, and the reporter is
\* answered that the message could not be analyzed, for voice and photo alike.
C20_FailedMediaAnswered ==
  [][\A p \in Procs :
       MediaAnalysisFailed(p)
       => /\ incidents' = incidents
          /\ pendingReports' = pendingReports
          /\ lastAnalysis'.reply = "analysisFailed"]_vars

\* The emergency keywords of the specification.
EmergencyKeywords == {"sos", "urgence", "emergency", "help", "au secours", "aide"}

\* C21: a text with an emergency keyword as a whole word is analyzed as type
\* sos, severity 5, isEmergency true, with or without AI backend and whatever
\* the backend answers.
C21_EmergencyKeywordForcesSos ==
  (lastAnalysis.kind = "text" /\ Contains(lastAnalysis.text, EmergencyKeywords))
  => /\ lastAnalysis.parsed.type = "sos"
     /\ lastAnalysis.parsed.severity = 5
     /\ lastAnalysis.parsed.isEmergency

\* The rules of the fallback classifier as the specification lists them, in
\* their order.
ListedRules ==
  << [type |-> "accident", words |-> {"accident", "collision", "crash"}],
     [type |-> "police_control", words |-> {"police", "gendarmerie", "checkpoint"}],
     [type |-> "flooding", words |-> {"flood", "inondation", "water"}],
     [type |-> "traffic_jam", words |-> {"jam", "bouchon", "embouteillage"}],
     [type |-> "road_works", words |-> {"works", "chantier", "travaux"}],
     [type |-> "hazard", words |-> {"fallen", "debris", "hazard", "arbre"}],
     [type |-> "road_damage", words |-> {"road", "hole", "damage", "cassé"}],
     [type |-> "protest", words |-> {"protest", "manifestation", "grève"}],
     [type |-> "roadblock", words |-> {"barrage", "roadblock"}] >>

\* The type of the first listed rule with a word of the text, else other.
ListedType(text) ==
  LET matching == {k \in 1 .. Len(ListedRules) : Contains(text, ListedRules[k].words)}
  IN IF matching = {} THEN "other"
     ELSE ListedRules[CHOOSE k \in matching : \A j \in matching : k <= j].type

\* analyzeText answered with the fallback classifier.
FellBack ==
  /\ lastAnalysis.kind = "text"
  /\ lastAnalysis.outcome.kind # "json"

\* C22: for a text without emergency keyword the fallback classifier returns
\* the type of the first listed rule that matches a whole word, other when
\* none does, with severity 3, isEmergency false and confidence 0.6.
C22_FallbackFollowsListedRules ==
  (FellBack /\ ~Contains(lastAnalysis.text, EmergencyKeywords))
  => /\ lastAnalysis.parsed.type = ListedType(lastAnalysis.text)
     /\ lastAnalysis.parsed.severity = 3
     /\ ~lastAnalysis.parsed.isEmergency
     /\ lastAnalysis.parsed.confidence = 6

\* C23: every incident, from the bot's finalization or from the /api/report
\* route, is inserted with status pending, 0 confirmations and an expiry
\* exactly 60 minutes after its creation.
C23_CreatedPendingWithHourTTL ==
  [][Len(incidents') = Len(incidents) + 1
     => LET row == incidents'[Len(incidents')] IN
          /\ row.status = "pending"
          /\ row.confirmations = 0
          /\ row.expires_at = row.created_at + 60
          /\ row.expires_at > row.created_at]_vars

\* handleLocation in slot p rewards its reporter.
Rewards(p) ==
  /\ calls[p].op = "handleLocation"
  /\ calls[p].pc = "incrementUserReports"
  /\ calls'[p] # calls[p]

\* C24: a report submission raises the reporter's count of reports by exactly
\* one and the reporter's trust score by a positive amount, up to 100.
C24_SubmissionRaisesCountAndTrust ==
  [][\A p \in Procs :
       Rewards(p)
       => \A k \in UserRows(calls[p].userId) :
            /\ users'[k].reports_count = users[k].reports_count + 1
            /\ \/ users'[k].trust_score > users[k].trust_score
               \/ users'[k].trust_score = MaxTrust]_vars

\* C25: once the confirm votes of two distinct reporters on an incident have
\* been accepted and their handlers are done, the incident is verified.
C25_TwoAcceptedConfirmsVerify ==
  \A i \in 1 .. Len(incidents) :
    ( /\ {"A", "B"} \subseteq Confirmers(i)
      /\ \A p \in Procs : calls[p] = Idle )
    => incidents[i].status = "verified"

\* Some incident becomes expired in the step: the sweep has run.
SomeExpire ==
  \E k \in 1 .. Len(incidents) :
    incidents[k].status # "expired" /\ incidents'[k].status = "expired"

\* C26: the sweep changes only the status of the incidents that were pending
\* or verified with their expiry in the past; the other incidents, every
\* other field, the confirmations and the user records stay as they are.
C26_SweepChangesOnlyStaleStatus ==
  [][SomeExpire =>
       /\ Len(incidents') = Len(incidents)
       /\ \A k \in 1 .. Len(incidents) :
            IF k \in Stale(incidents, now)
              THEN incidents'[k] = [incidents[k] EXCEPT !.status = "expired"]
              ELSE incidents'[k] = incidents[k]
       /\ confirmations' = confirmations
       /\ users' = users
       /\ pendingReports' = pendingReports]_vars

\* The first incident has been expired; the second, whose expiry is still to
\* come, is pending.
C26_FreshIncidentKept ==
  /\ Len(incidents) = 2
  /\ incidents[1].status = "expired"
  /\ incidents[1].expires_at < now
  /\ incidents[2].status = "pending"
  /\ incidents[2].expires_at > now

\* The step handles a message or action of reporter u, or resumes a handler
\* of u after an await.
Handles(u) ==
  \/ MainMenu(Slot(u), u)
  \/ SelectType(u, "flooding")
  \/ \E text \in {<<"flood">>, <<"help">>} : OnText(Slot(u), u, text)
  \/ OnLocation(Slot(u), u, Bastos)
  \/ \E p \in Procs :
       /\ calls[p] # Idle
       /\ calls[p].userId = u
       /\ \/ OnTextAnalyzed(p)
          \/ HandlePanicSet(p)
          \/ HandleLocationCreateIncident(p)
          \/ HandleLocationReward(p)
          \/ HandleLocationSendToChannel(p)

\* C27: a step that handles a message or action of one reporter (reset, type
\* selection, text, classified text, panic, location, finalization) leaves
\* the pending report entry of every other reporter as it was.
C27_OtherEntriesUntouched ==
  [][\A u \in Reporters :
       Handles(u) =>
         \A v \in Reporters \ {u} : pendingReports'[v] = pendingReports[v]]_vars

\* C27: reporter A's report is finalized and its entry deleted while reporter
\* B's report still awaits its description.
C27_OtherEntryKept ==
  /\ \E k \in 1 .. Len(incidents) : incidents[k].reporter_id = "A"
  /\ \A p \in Procs : calls[p] = Idle
  /\ pendingReports["A"] = NoPending
  /\ pendingReports["B"].step = "awaiting_description"

\* ------------------------------------------------------------ the read path

ActiveMaxAge == 60       \* getActiveIncidents(maxAge = 60), minutes
NearbyRadiusKm == 2      \* getNearbyIncidents(coords, radiusKm = 2)

\* radiusKm / 111 degrees, in the units of the model's coordinates.
NearbyDelta == (NearbyRadiusKm * 1000) \div MetersPerUnit

\* The two coordinates are exchanged.
MapDbToIncidentSwapped(id, row) ==
  [id |-> id,
   type |-> row.type,
   location |-> [latitude |-> row.longitude, longitude |-> row.latitude],
   severity |-> row.severity,
   status |-> row.status,
   reporterId |-> row.reporter_id,
   confirmations |-> row.confirmations,
   expiresAt |-> row.expires_at,
   createdAt |-> row.created_at]

\* mapDbToIncident; the id of a row is its place in the table.
MapDbToIncident(id, row) ==
  [id |-> id,
   type |-> row.type,
   location |-> [latitude |-> row.latitude, longitude |-> row.longitude],
   severity |-> row.severity,
   status |-> row.status,
   reporterId |-> row.reporter_id,
   confirmations |-> row.confirmations,
   expiresAt |-> row.expires_at,
   createdAt |-> row.created_at]

\* .order('created_at', { ascending: false }) and .map(mapDbToIncident) over
\* the selected rows; rows of one instant come in the order of the table.
RECURSIVE Fetched(_, _)
Fetched(rows, ids) ==
  IF ids = {} THEN <<>>
  ELSE LET first == CHOOSE k \in ids :
                      \A j \in ids :
                        \/ rows[j].created_at < rows[k].created_at
                        \/ rows[j].created_at = rows[k].created_at /\ k <= j
       IN <<MapDbToIncident(first, rows[first])>> \o Fetched(rows, ids \ {first})

\* getActiveIncidents at instant t
GetActiveIncidents(rows, t, maxAge) ==
  Fetched(rows,
          {k \in 1 .. Len(rows) :
             /\ rows[k].status \in {"pending", "verified"}
             /\ rows[k].created_at >= t - maxAge})

\* getNearbyIncidents: the bounding box around coords
GetNearbyIncidents(rows, coords) ==
  Fetched(rows,
          {k \in 1 .. Len(rows) :
             /\ rows[k].status \in {"pending", "verified"}
             /\ rows[k].latitude >= coords.latitude - NearbyDelta
             /\ rows[k].latitude <= coords.latitude + NearbyDelta
             /\ rows[k].longitude >= coords.longitude - NearbyDelta
             /\ rows[k].longitude <= coords.longitude + NearbyDelta})

\* The incident with this id, as a fetch returned it.
ReturnedAs(fetched, id, type, severity, location) ==
  \E i \in 1 .. Len(fetched) :
    /\ fetched[i].id = id
    /\ fetched[i].type = type
    /\ fetched[i].severity = severity
    /\ fetched[i].location = location
    /\ fetched[i].status = "pending"

\* Both fetches, made in the state the creation leaves, return the new
\* incident with what createIncident was given.
RoundTrip(type, severity, location) ==
  /\ ReturnedAs(GetActiveIncidents(incidents', now', ActiveMaxAge),
                Len(incidents'), type, severity, location)
  /\ ReturnedAs(GetNearbyIncidents(incidents', location),
                Len(incidents'), type, severity, location)

\* C28: an incident that createIncident has just inserted, on the bot path or
\* the API path, is returned by getActiveIncidents and by getNearbyIncidents
\* with the type, severity and location it was created with and with status
\* pending.  (The insert of the bot path is answered within the maxAge of
\* getActiveIncidents after the incident was built.)
C28_CreatedIncidentFetchedAlike ==
  [][/\ \A p \in Procs :
          (/\ calls[p].op = "handleLocation"
           /\ calls[p].pc = "createIncident"
           /\ calls'[p] # calls[p]
           /\ calls'[p].saved # 0
           /\ now - calls[p].incidentData.created_at <= ActiveMaxAge)
          => RoundTrip(calls[p].incidentData.type,
                       calls[p].incidentData.severity,
                       calls[p].incidentData.location)
     /\ \A userId \in Reporters, type \in Types, location \in Locations,
           severity \in ApiSeverities :
          ApiReport(userId, type, location, severity)
          => RoundTrip(type,
                       IF severity = 0 THEN DefaultSeverity ELSE severity,
                       location)]_vars

\* C28: an incident of the API and one of the bot are in the table, and the
\* fetch of the active incidents returns both with their locations.
C28_BothPathsFetched ==
  LET fetched == GetActiveIncidents(incidents, now, ActiveMaxAge) IN
    /\ Len(fetched) = 2
    /\ \E i, j \in 1 .. 2 :
         /\ fetched[i].reporterId = "A" /\ fetched[i].location = Bastos
         /\ fetched[i].expiresAt = fetched[i].createdAt + BotTTL
         /\ fetched[j].location = BastosNear /\ fetched[j].severity = 4
         /\ fetched[j].expiresAt = fetched[j].createdAt + ApiTTL

\* ------------------------------------------------------------------ badges

\* Trust scores and report counts at and around the thresholds of the tiers.
TrustLevels == {0, 49, 50, 69, 70, 79, 80, 100}
ReportLevels == {0, 9, 10, 49, 50, 99, 100, 150}

\* The badges without their pictograms, lowest tier first.
BadgeNames == <<"New", "Active", "Trusted", "Legend">>

\* The tiers are tried from the lowest up.
GetUserBadgeBottomUp(trustScore, reportsCount) ==
  IF reportsCount >= 10 /\ trustScore >= 50 THEN "Active"
  ELSE IF reportsCount >= 50 /\ trustScore >= 70 THEN "Trusted"
  ELSE IF reportsCount >= 100 /\ trustScore >= 80 THEN "Legend"
  ELSE "New"

\* getUserBadge
GetUserBadge(trustScore, reportsCount) ==
  IF reportsCount >= 100 /\ trustScore >= 80 THEN "Legend"
  ELSE IF reportsCount >= 50 /\ trustScore >= 70 THEN "Trusted"
  ELSE IF reportsCount >= 10 /\ trustScore >= 50 THEN "Active"
  ELSE "New"

\* bot.command('mystats'): getOrCreateUser, then the reply with the badge of
\* the row it returned.
MyStats(telegramId) ==
  /\ \A p \in Procs : calls[p] = Idle
  /\ IF HasUser(telegramId)
       THEN LET row == users[CHOOSE k \in UserRows(telegramId) : TRUE] IN
              /\ lastReply' = GetUserBadge(row.trust_score, row.reports_count)
              /\ UNCHANGED users
       ELSE /\ users' = Append(users, NewUser(telegramId))
            /\ lastReply' = GetUserBadge(InitialTrust, 0)
  /\ UNCHANGED <<now, incidents, confirmations, pendingReports, calls, channel,
                 lastVote>>
  /\ UNCHANGED <<flowVars, hostVars>>

\* Reporter A is registered with any trust score and report count of the
\* levels; reporter B is not registered.
InitBadge ==
  /\ now = 0
  /\ incidents = <<>>
  /\ confirmations = EmptyBag
  /\ \E t \in TrustLevels, r \in ReportLevels :
       users = <<[telegram_id |-> "A", trust_score |-> t, reports_count |-> r]>>
  /\ pendingReports = [u \in Reporters |-> NoPending]
  /\ calls = [p \in Procs |-> Idle]
  /\ channel = <<>>
  /\ lastReply = NoReply
  /\ lastVote = NoVote
  /\ pendingRoutes = [u \in Reporters |-> NoRoute]
  /\ pendingFuel = [u \in Reporters |-> NoFuel]
  /\ geminiModel = TRUE
  /\ lastAnalysis = NoAnalysis
  /\ InitHost

\* Reporter A asks for the statistics.
NextBadge == MyStats("A")

SpecBadge == InitBadge /\ [][NextBadge]_vars

\* The place of a badge among the tiers.
Tier(badge) == CHOOSE n \in 1 .. Len(BadgeNames) : BadgeNames[n] = badge

\* C29: the badge shown is Legend iff reports >= 100 and trust >= 80,
\* otherwise Trusted iff reports >= 50 and trust >= 70, otherwise Active iff
\* reports >= 10 and trust >= 50, otherwise New; and no higher trust score or
\* report count gets a lower tier.
C29_BadgeByTiersFromTop ==
  lastReply \in {BadgeNames[n] : n \in 1 .. Len(BadgeNames)} =>
    LET t == users[1].trust_score
        r == users[1].reports_count
        legend == r >= 100 /\ t >= 80
        trusted == ~legend /\ r >= 50 /\ t >= 70
        active == ~legend /\ ~trusted /\ r >= 10 /\ t >= 50
    IN /\ lastReply = "Legend" <=> legend
       /\ lastReply = "Trusted" <=> trusted
       /\ lastReply = "Active" <=> active
       /\ lastReply = "New" <=> (~legend /\ ~trusted /\ ~active)
       /\ \A t2 \in TrustLevels, r2 \in ReportLevels :
            (t2 >= t /\ r2 >= r)
            => Tier(GetUserBadge(t2, r2)) >= Tier(lastReply)

\* C29: with reports enough for Legend and a trust score below 80 the badge
\* shown is Trusted.
C29_TrustedBelowLegendTrust ==
  /\ lastReply = "Trusted"
  /\ users[1].reports_count >= 100
  /\ users[1].trust_score = 79

\* C30: the confirmations counter of every incident is at least zero,
\* whatever updateIncidentConfirmations calls, raising or lowering, are made.
C30_ConfirmationsNeverNegative ==
  \A k \in 1 .. Len(incidents) : incidents[k].confirmations >= 0

\* C30: a lowering update of an incident whose counter is zero is about to
\* write zero.
C30_LoweredAtZero ==
  \E p \in Procs :
    /\ calls[p].op = "updateIncidentConfirmations"
    /\ calls[p].delta < 0
    /\ calls[p].incidentId \in 1 .. Len(incidents)
    /\ incidents[calls[p].incidentId].confirmations = 0
    /\ calls[p].newConfirmations = 0

\* C31: an incident whose status is expired or false is never pending or
\* verified again, whatever store operation runs.
C31_RetiredStaysRetired ==
  [][\A k \in 1 .. Len(incidents) :
       incidents[k].status \in {"expired", "false"}
       => incidents'[k].status \notin {"pending", "verified"}]_vars

\* C32: when a finalization that has persisted its incident ends, the
\* reporter's pending report is removed, whether or not the broadcast was
\* sent.
C32_PersistedEntryRemoved ==
  [][\A p \in Procs :
       (/\ calls[p].op = "handleLocation"
        /\ calls[p].saved # 0
        /\ calls'[p] = Idle)
       => pendingReports'[calls[p].userId] = NoPending]_vars

\* C33: while no handler is in flight, the report count of every reporter is
\* the number of incidents persisted with that reporter as their reporter.
C33_CountEqualsPersisted ==
  (\A p \in Procs : calls[p] = Idle)
  => \A u \in Reporters :
       ReportsCount(u) =
         Cardinality({k \in 1 .. Len(incidents) : incidents[k].reporter_id = u})

\* C34: every broadcast of a report is for an incident that is persisted, no
\* two broadcasts are for the same incident, and a broadcast is flagged
\* critical exactly when the severity of its incident is at least 4.
C34_BroadcastOncePersistedFlagged ==
  /\ \A i \in 1 .. Len(channel) :
       /\ channel[i].incident \in 1 .. Len(incidents)
       /\ channel[i].critical <=> incidents[channel[i].incident].severity >= 4
  /\ \A i, j \in 1 .. Len(channel) :
       channel[i].incident = channel[j].incident => i = j

\* C34: two reports were broadcast, one of severity 4 flagged critical and one
\* of severity 3 not flagged.
C34_CriticalAndPlainBroadcast ==
  /\ Len(channel) = 2
  /\ \E i, j \in 1 .. 2 :
       /\ channel[i].critical
       /\ incidents[channel[i].incident].severity = 4
       /\ ~channel[j].critical
       /\ incidents[channel[j].incident].severity = 3

AlertsMaxAge == 240      \* showActiveAlerts: getActiveIncidents(4 * 60)

\* C35: no incident that getActiveIncidents or getNearbyIncidents returns has
\* its expiry before the instant of the query, swept or not.
C35_FetchedNotPastExpiry ==
  \A fetched \in {GetActiveIncidents(incidents, now, ActiveMaxAge),
                  GetActiveIncidents(incidents, now, AlertsMaxAge),
                  GetNearbyIncidents(incidents, Bastos)} :
    \A i \in 1 .. Len(fetched) : fetched[i].expiresAt >= now

\* C36: every pending report has a type of the incident enumeration and, when
\* its severity is set, a severity from 1 to 5.
C36_PendingWellTyped ==
  \A u \in Reporters :
    pendingReports[u] # NoPending
    => /\ pendingReports[u].type \in IncidentTypes
       /\ pendingReports[u].severity \in 0 .. 5

\* A timer of the scheduler fires and its task starts.
TaskStarts ==
  \E k \in 1 .. Len(timers) : ExpiryTick(k) \/ BriefTick(k)

\* C37: once stop() has returned, and until start() is called again, no
\* expiry sweep and no morning-brief check starts.
C37_NothingStartsAfterStop ==
  [][lastSchedulerCall = "stop" => ~TaskStarts]_vars

\* C38: every getOrCreateUser call that ends returns the record of its
\* telegram id; the table then holds exactly one row of that id, and the rows
\* it held are as they were.
C38_UserReturnedOnceCreated ==
  [][\A p \in Procs :
       (calls[p].op = "getOrCreateUser" /\ calls'[p] = Idle)
       => LET telegramId == calls[p].telegramId
              returned == CreateUser(users, telegramId).user
          IN /\ returned # Null
             /\ returned.telegram_id = telegramId
             /\ Cardinality({k \in 1 .. Len(users') :
                               users'[k].telegram_id = telegramId}) = 1
             /\ \A k \in 1 .. Len(users) : users'[k] = users[k]]_vars

\* C39 as stated: getModel never returns undefined; a listed name gets the
\* model registered under it; no name, or a name that is not listed, gets the
\* gemini model.
C39_AbsentNameGetsGemini ==
  lastModel # NoModel
  => /\ lastModel.model # Undefined
     /\ lastModel.name \in ListModels => lastModel.model = Models[lastModel.name]
     /\ lastModel.name \notin ListModels => lastModel.model = Models["gemini"]

\* C39: getModel never returns undefined; a listed name gets the model
\* registered under it; a name that is not listed gets the gemini model; no
\* name gets the model of the configured default when that is listed, and the
\* gemini model otherwise.
C39_AbsentNameGetsDefault ==
  lastModel # NoModel
  => /\ lastModel.model # Undefined
     /\ lastModel.name \in ListModels => lastModel.model = Models[lastModel.name]
     /\ lastModel.name \notin ListModels \cup {""}
          => lastModel.model = Models["gemini"]
     /\ lastModel.name = ""
          => lastModel.model =
               IF defaultModel \in ListModels THEN Models[defaultModel]
               ELSE Models["gemini"]

\* C39: getModel was called without a name while the configured default is
\* not registered, and returned the gemini model.
C39_UnregisteredDefaultFallsBack ==
  /\ lastModel.name = ""
  /\ defaultModel \notin ListModels
  /\ lastModel.model = "GeminiModel"

====
